---- MODULE Spec2Model ----
(***************************************************************************)
(* A model of pdf-lite-mcp: the path resolver (src/src/utils.py), the      *)
(* request models (src/src/models.py), the batch loop of                   *)
(* src/src/pdf_reader.py and the tool adapter of src/src/main.py.          *)
(*                                                                         *)
(* Strings are sequences of one-character strings, so that strip,          *)
(* normpath, startswith and the splitting of a path into its components    *)
(* are computed as the library computes them.                              *)
(***************************************************************************)
EXTENDS Integers, Sequences, FiniteSets, TLC

VARIABLES
    project_root,   \* PathUtils.project_root: the names below "/" of the trusted root
    symlinks,       \* the file system's symbolic links: a set of <<link, target>>
    user_path,      \* the argument of resolve_path
    path_result,    \* what resolve_path returned or raised
    cwd,            \* the working directory of the process: the names below "/"
    called_in,      \* history: the working directory at the call of resolve_path
    safe_result,    \* what is_safe_path returned or raised
    source_args,    \* the keyword arguments of PdfSource(...): path, url, pages
    source_result,  \* the PdfSource constructed, or the errors raised
    tool_name,      \* call_tool's name
    arguments,      \* call_tool's arguments
    pc,             \* where call_tool is: start, loop, fetched, temp, extract, returned, raised
    request,        \* the ReadPdfRequest parsed from the arguments
    results,        \* the results list of process_request
    idx,            \* the position in request.sources of the source the loop is at
    pdf_reader,     \* the reader _load_pdf returned for that source
    load_log,       \* history: the positions of the sources _load_pdf was called for
    met,            \* history: what the environment answered for each source
    temp_files,     \* the temporary files on disk, named by the source they serve
    parser_log,     \* history: the calls of the parser, each with its source
    text,           \* the argument of clean_pdf_text and of truncate_text
    max_length,     \* the max_length of truncate_text
    text_op,        \* which of the two was called: clean, truncate, or none yet
    text_result,    \* what it returned
    tool_result     \* what call_tool returned or raised

path_vars == <<project_root, symlinks, user_path, path_result, cwd, called_in, safe_result>>
source_vars == <<source_args, source_result>>
tool_vars ==
    <<tool_name, arguments, pc, request, results, idx, pdf_reader, load_log, met,
      temp_files, parser_log, tool_result>>
text_vars == <<text, max_length, text_op, text_result>>
vars == <<path_vars, source_vars, tool_vars, text_vars>>

-----------------------------------------------------------------------------
(* Bounds *)

\* longest input string given to resolve_path
MaxPathLen == 6

\* longest of the exhaustively enumerated page lists
MaxPagesLen == 3

\* longest of the exhaustively enumerated lists of sources
MaxSources == 2

\* longest of the exhaustively enumerated texts
MaxTextLen == 6

\* largest of the exhaustively enumerated values of max_length
MaxBudget == 6

-----------------------------------------------------------------------------
(* Strings *)

PathChars == {"/", ".", "a", " "}

\* the characters str.strip() removes
Whitespace == {" ", "\n", "\t"}

RECURSIVE SeqsUpTo(_, _)
SeqsUpTo(S, n) ==
    IF n = 0 THEN {<<>>}
    ELSE LET shorter == SeqsUpTo(S, n - 1)
         IN  shorter \cup {Append(s, c) : s \in {t \in shorter : Len(t) = n - 1}, c \in S}

NoValue == [kind |-> "none", chars |-> <<>>]
Str(s) == [kind |-> "str", chars |-> s]
NotAStr == [kind |-> "int", chars |-> <<>>]

IsPrefix(p, s) == Len(p) <= Len(s) /\ SubSeq(s, 1, Len(p)) = p

\* str.startswith
StartsWith(s, p) == IsPrefix(p, s)

RECURSIVE LStrip(_)
LStrip(s) == IF s # <<>> /\ Head(s) \in Whitespace THEN LStrip(Tail(s)) ELSE s

RECURSIVE RStrip(_)
RStrip(s) ==
    IF s # <<>> /\ s[Len(s)] \in Whitespace THEN RStrip(SubSeq(s, 1, Len(s) - 1)) ELSE s

\* str.strip()
Strip(s) == RStrip(LStrip(s))

\* str.split('/')
RECURSIVE SplitAcc(_, _, _, _)
SplitAcc(s, i, cur, acc) ==
    IF i > Len(s) THEN Append(acc, cur)
    ELSE IF s[i] = "/" THEN SplitAcc(s, i + 1, <<>>, Append(acc, cur))
    ELSE SplitAcc(s, i + 1, Append(cur, s[i]), acc)

Split(s) == SplitAcc(s, 1, <<>>, <<>>)

\* '/'.join(comps)
RECURSIVE Join(_)
Join(comps) ==
    IF comps = <<>> THEN <<>>
    ELSE IF Len(comps) = 1 THEN comps[1]
    ELSE comps[1] \o <<"/">> \o Join(Tail(comps))

Dot == <<".">>
DotDot == <<".", ".">>

-----------------------------------------------------------------------------
(* os.path.normpath and os.path.isabs (posixpath), as called by resolve_path *)

InitialSlashes(path) ==
    IF ~StartsWith(path, <<"/">>) THEN 0
    ELSE IF StartsWith(path, <<"/", "/">>) /\ ~StartsWith(path, <<"/", "/", "/">>) THEN 2
    ELSE 1

RECURSIVE NormComps(_, _, _, _)
NormComps(comps, i, initial_slashes, new_comps) ==
    IF i > Len(comps) THEN new_comps
    ELSE LET comp == comps[i] IN
         IF comp = <<>> \/ comp = Dot
         THEN NormComps(comps, i + 1, initial_slashes, new_comps)
         ELSE IF comp # DotDot
                 \/ (initial_slashes = 0 /\ new_comps = <<>>)
                 \/ (new_comps # <<>> /\ new_comps[Len(new_comps)] = DotDot)
         THEN NormComps(comps, i + 1, initial_slashes, Append(new_comps, comp))
         ELSE IF new_comps # <<>>
         THEN NormComps(comps, i + 1, initial_slashes,
                        SubSeq(new_comps, 1, Len(new_comps) - 1))
         ELSE NormComps(comps, i + 1, initial_slashes, new_comps)

normpath(path) ==
    IF path = <<>> THEN Dot
    ELSE LET initial_slashes == InitialSlashes(path)
             comps == NormComps(Split(path), 1, initial_slashes, <<>>)
             joined == [n \in 1..initial_slashes |-> "/"] \o Join(comps)
         IN  IF joined = <<>> THEN Dot ELSE joined

isabs(path) == StartsWith(path, <<"/">>)

-----------------------------------------------------------------------------
(* pathlib: project_root / normalized_path, Path.resolve, Path.relative_to.  *)
(* An absolute path is the sequence of its names below "/".                  *)

\* the parts pathlib keeps of a relative string: no empty and no "." parts
PathParts(s) == SelectSeq(Split(s), LAMBDA c : c # <<>> /\ c # Dot)

LinkTarget(p) == (CHOOSE l \in symlinks : l[1] = p)[2]
IsLink(p) == \E l \in symlinks : l[1] = p

\* Path.resolve(): ".." goes to the parent of the path resolved so far ("/" is its
\* own parent), a name that is a symbolic link is replaced by the link's target
RECURSIVE Realpath(_, _)
Realpath(cur, parts) ==
    IF parts = <<>> THEN cur
    ELSE LET part == Head(parts) IN
         IF part = DotDot
         THEN Realpath(IF cur = <<>> THEN <<>> ELSE SubSeq(cur, 1, Len(cur) - 1),
                       Tail(parts))
         ELSE LET newpath == Append(cur, part) IN
              IF IsLink(newpath)
              THEN Realpath(LinkTarget(newpath), Tail(parts))
              ELSE Realpath(newpath, Tail(parts))

\* the absolute path as a string
PathString(p) == <<"/">> \o Join(p)

\* the containment check made on the strings: str(resolved).startswith(str(root))
RelativeToRoot_StringPrefix(resolved_path) ==
    StartsWith(PathString(resolved_path), PathString(project_root))

\* resolved_path.relative_to(project_root) does not raise
RelativeToRoot(resolved_path) == IsPrefix(project_root, resolved_path)

-----------------------------------------------------------------------------
(* PathUtils.resolve_path *)

Raised(kind, msg) == [kind |-> kind, path |-> <<>>, msg |-> msg]
Returned(p) == [kind |-> "ok", path |-> p, msg |-> ""]
NotCalled == [kind |-> "not_called", path |-> <<>>, msg |-> ""]

\* the security check of lines 54-58, dropped
ResolveChecked_NoCheck(resolved_path) == Returned(resolved_path)

ResolveChecked(resolved_path) ==
    IF RelativeToRoot(resolved_path)
    THEN Returned(resolved_path)
    ELSE Raised("SecurityError", "Path traversal detected. Access denied")

\* the absolute-path check of lines 47-49, made on the target instead of the form
ResolveNormalized_AbsInsideAllowed(normalized_path) ==
    IF isabs(normalized_path) /\ ~RelativeToRoot(Realpath(<<>>, PathParts(normalized_path)))
    THEN Raised("SecurityError", "Absolute paths are not allowed")
    ELSE ResolveChecked(Realpath(IF isabs(normalized_path) THEN <<>> ELSE project_root,
                                 PathParts(normalized_path)))

\* the join made on the relative path, which resolve() completes with the
\* working directory
ResolveNormalized_FromCwd(normalized_path) ==
    IF isabs(normalized_path)
    THEN Raised("SecurityError", "Absolute paths are not allowed")
    ELSE ResolveChecked(Realpath(cwd, PathParts(normalized_path)))

ResolveNormalized(normalized_path) ==
    IF isabs(normalized_path)
    THEN Raised("SecurityError", "Absolute paths are not allowed")
    ELSE ResolveChecked(Realpath(project_root, PathParts(normalized_path)))

\* the emptiness check of lines 41-42, dropped
resolve_path_NoEmptyCheck(p) ==
    IF p.kind # "str" THEN Raised("ValueError", "Path must be a string")
    ELSE ResolveNormalized(normpath(p.chars))

resolve_path(p) ==
    IF p.kind # "str" THEN Raised("ValueError", "Path must be a string")
    ELSE IF Strip(p.chars) = <<>> THEN Raised("ValueError", "Path cannot be empty")
    ELSE ResolveNormalized(normpath(p.chars))

\* a pathlib.Path made of the string s
AsPath(s) == [kind |-> "path", chars |-> s]

\* path.resolve() of line 76: a relative path is completed with the working
\* directory
ResolvedPath(s) == Realpath(IF isabs(s) THEN <<>> ELSE cwd, PathParts(s))

\* PathUtils.is_safe_path: a str goes through resolve_path; a Path is resolved
\* and compared with the root; SecurityError and ValueError give False; any
\* other value has no resolve()
is_safe_path(path) ==
    IF path.kind = "str"
    THEN IF resolve_path(path).kind = "ok" THEN "True" ELSE "False"
    ELSE IF path.kind = "path"
    THEN IF RelativeToRoot(ResolvedPath(path.chars)) THEN "True" ELSE "False"
    ELSE "AttributeError"

-----------------------------------------------------------------------------
(* The inputs of resolve_path: the roots, the file systems and the strings   *)

Roots == {<<>>, <<<<"a">>>>, <<<<"a">>, <<"a">>>>}

\* no links; a link below the roots that leaves them; a link beside /a into it
FileSystems ==
    { {},
      {<< <<<<"a">>, <<"a">>, <<"a">>>>, <<>> >>},
      {<< <<<<"a", "a">>>>, <<<<"a">>, <<"a">>>> >>} }

UserPaths == {Str(s) : s \in SeqsUpTo(PathChars, MaxPathLen)} \cup {NotAStr}

-----------------------------------------------------------------------------
(* PdfSource (models.py) *)

\* the limit of validate_pages
PageLimit == 100

Http == <<"h", "t", "t", "p", ":", "/", "/">>
Https == <<"h", "t", "t", "p", "s", ":", "/", "/">>

NoPages == [kind |-> "none", items |-> <<>>]
Pages(l) == [kind |-> "list", items |-> l]

Range(s) == {s[i] : i \in DOMAIN s}

\* the members of a set of integers in ascending order
SortedSeq(S) ==
    [i \in 1..Cardinality(S) |-> CHOOSE x \in S : Cardinality({y \in S : y <= x}) = i]

\* sorted(list(set(v)))
SortedDistinct(v) == SortedSeq(Range(v))

\* sorted(v)
SortedKeepingDuplicates(v) ==
    [i \in 1..Len(v) |->
        CHOOSE x \in Range(v) :
            /\ Cardinality({j \in DOMAIN v : v[j] < x}) < i
            /\ i <= Cardinality({j \in DOMAIN v : v[j] <= x})]

FieldOk(value) == [ok |-> TRUE, value |-> value, msg |-> ""]
FieldError(value, msg) == [ok |-> FALSE, value |-> value, msg |-> msg]

\* line 26 as sorted(v): the duplicates are kept
validate_pages_NoDedup(v) ==
    IF v.kind = "none" THEN FieldOk(v)
    ELSE IF v.items = <<>> THEN FieldError(v, "Pages list cannot be empty")
    ELSE IF \E i \in DOMAIN v.items : v.items[i] <= 0
    THEN FieldError(v, "Page numbers must be positive integers")
    ELSE IF Len(v.items) > PageLimit
    THEN FieldError(v, "Too many pages requested (limit: 100)")
    ELSE FieldOk(Pages(SortedKeepingDuplicates(v.items)))

\* lines 23-26 with the limit applied to the deduplicated list
validate_pages_LimitAfterDedup(v) ==
    IF v.kind = "none" THEN FieldOk(v)
    ELSE IF v.items = <<>> THEN FieldError(v, "Pages list cannot be empty")
    ELSE IF \E i \in DOMAIN v.items : v.items[i] <= 0
    THEN FieldError(v, "Page numbers must be positive integers")
    ELSE IF Len(SortedDistinct(v.items)) > PageLimit
    THEN FieldError(v, "Too many pages requested (limit: 100)")
    ELSE FieldOk(Pages(SortedDistinct(v.items)))

validate_pages(v) ==
    IF v.kind = "none" THEN FieldOk(v)
    ELSE IF v.items = <<>> THEN FieldError(v, "Pages list cannot be empty")
    ELSE IF \E i \in DOMAIN v.items : v.items[i] <= 0
    THEN FieldError(v, "Page numbers must be positive integers")
    ELSE IF Len(v.items) > PageLimit
    THEN FieldError(v, "Too many pages requested (limit: 100)")
    ELSE FieldOk(Pages(SortedDistinct(v.items)))

validate_url(v) ==
    IF v.kind # "none" /\ ~(StartsWith(v.chars, Http) \/ StartsWith(v.chars, Https))
    THEN FieldError(v, "URL must start with http:// or https://")
    ELSE FieldOk(v)

\* Python's truth value of an Optional[str]: None and "" are false
Truthy(v) == v.kind = "str" /\ v.chars # <<>>

\* line 38 as "path or url": a source with both passes
ExactlyOneOf_Either(path, url) == Truthy(path) \/ Truthy(url)

\* the condition of line 38
ExactlyOneOf(path, url) ==
    (Truthy(path) /\ ~Truthy(url)) \/ (~Truthy(path) /\ Truthy(url))

FieldErr(loc, msg) == [loc |-> loc, msg |-> msg]
NoSource == [path |-> NoValue, url |-> NoValue, pages |-> NoPages]
SourceNotBuilt == [status |-> "not_called", errors |-> <<>>, value |-> NoSource]

\* the check of lines 37-39 made whatever the field validators found
PdfSource_ChecksAll(data) ==
    LET u == validate_url(data.url)
        p == validate_pages(data.pages)
        errors == (IF u.ok THEN <<>> ELSE <<FieldErr("url", u.msg)>>)
                  \o (IF p.ok THEN <<>> ELSE <<FieldErr("pages", p.msg)>>)
                  \o (IF ExactlyOneOf(data.path, data.url) THEN <<>>
                      ELSE <<FieldErr("__root__",
                             "Each source must have either 'path' or 'url', but not both")>>)
        value == [path |-> data.path, url |-> u.value, pages |-> p.value]
    IN  IF errors # <<>>
        THEN [status |-> "ValidationError", errors |-> errors, value |-> NoSource]
        ELSE [status |-> "ok", errors |-> <<>>, value |-> value]

\* PdfSource(**data): the field validators in field order, all their errors
\* collected (BaseModel.__init__), then the check of lines 37-39
PdfSource(data) ==
    LET u == validate_url(data.url)
        p == validate_pages(data.pages)
        errors == (IF u.ok THEN <<>> ELSE <<FieldErr("url", u.msg)>>)
                  \o (IF p.ok THEN <<>> ELSE <<FieldErr("pages", p.msg)>>)
        value == [path |-> data.path, url |-> u.value, pages |-> p.value]
    IN  IF errors # <<>>
        THEN [status |-> "ValidationError", errors |-> errors, value |-> NoSource]
        ELSE IF ~ExactlyOneOf(value.path, value.url)
        THEN [status |-> "ValueError",
              errors |-> <<FieldErr("__root__",
                           "Each source must have either 'path' or 'url', but not both")>>,
              value |-> NoSource]
        ELSE [status |-> "ok", errors |-> <<>>, value |-> value]

-----------------------------------------------------------------------------
(* The inputs of PdfSource *)

PageValues == {-1, 0, 1, 2, 3}

\* n entries that run through 1..m again and again
Cycle(m, n) == [i \in 1..n |-> ((i - 1) % m) + 1]

\* n entries that run down from n to 1
Descending(n) == [i \in 1..n |-> n + 1 - i]

LongLengths == {PageLimit - 1, PageLimit, PageLimit + 1}

LongPageLists ==
    {Cycle(m, n) : m \in {1, 2, PageLimit, PageLimit + 1}, n \in LongLengths}
    \cup {Descending(n) : n \in LongLengths}
    \cup {<<0>> \o Cycle(2, PageLimit)}

PageLists == SeqsUpTo(PageValues, MaxPagesLen) \cup LongPageLists

SourcePaths == {NoValue, Str(<<>>), Str(<<"a">>), Str(<<" ">>)}

SourceUrls ==
    {NoValue, Str(<<>>), Str(Http \o <<"h">>), Str(Https \o <<"h">>), Str(Http),
     Str(<<"f", "t", "p", ":", "/", "/", "h">>), Str(<<"h", "t", "t", "p", ":", "/", "h">>),
     Str(<<"h">> \o Http)}

SourceArgs ==
    [path : SourcePaths, url : SourceUrls, pages : {NoPages} \cup {Pages(l) : l \in PageLists}]

-----------------------------------------------------------------------------
(* ReadPdfRequest (models.py) *)

\* min_items and max_items of ReadPdfRequest.sources
MinItems == 1
MaxItems == 10

RequestErr(index, sub, msg) ==
    [loc |-> [field |-> "sources", index |-> index, sub |-> sub], msg |-> msg]

\* the errors of the sources from the i-th on, each under its index
RECURSIVE SourceErrors(_, _)
SourceErrors(sources, i) ==
    IF i > Len(sources) THEN <<>>
    ELSE LET built == PdfSource(sources[i])
             here == [k \in DOMAIN built.errors |->
                         RequestErr(i, built.errors[k].loc, built.errors[k].msg)]
         IN  here \o SourceErrors(sources, i + 1)

\* max_items dropped from the field
LengthErrors_NoMaximum(sources) ==
    IF Len(sources) < MinItems
    THEN <<RequestErr(0, "", "ensure this value has at least 1 items")>>
    ELSE <<>>

\* the length constraints of the sources field
LengthErrors(sources) ==
    IF Len(sources) < MinItems
    THEN <<RequestErr(0, "", "ensure this value has at least 1 items")>>
    ELSE IF Len(sources) > MaxItems
    THEN <<RequestErr(0, "", "ensure this value has at most 10 items")>>
    ELSE <<>>

NoRequest ==
    [sources |-> <<>>, include_full_text |-> FALSE, include_metadata |-> FALSE,
     include_page_count |-> FALSE]

\* ReadPdfRequest.parse_obj(arguments): the request, or the ValidationError
ReadPdfRequest(args) ==
    IF ~args.has_sources
    THEN [ok |-> FALSE, errors |-> <<RequestErr(0, "", "field required")>>,
          value |-> NoRequest]
    ELSE LET errors == SourceErrors(args.sources, 1) \o LengthErrors(args.sources)
         IN  IF errors # <<>>
             THEN [ok |-> FALSE, errors |-> errors, value |-> NoRequest]
             ELSE [ok |-> TRUE, errors |-> <<>>,
                   value |-> [sources |-> [i \in DOMAIN args.sources |->
                                              PdfSource(args.sources[i]).value],
                              include_full_text |-> args.include_full_text,
                              include_metadata |-> args.include_metadata,
                              include_page_count |-> args.include_page_count]]

-----------------------------------------------------------------------------
(* Exceptions and format_error_for_amazon_q (utils.py).  A message is a      *)
(* sequence of pieces: a literal of the code, or text that came from the     *)
(* request.                                                                  *)

Lit(s) == [lit |-> s, chars |-> <<>>]
Data(c) == [lit |-> "", chars |-> c]

Exc(type, msg) == [type |-> type, msg |-> msg]
NoExc == Exc("none", <<>>)

\* the literals of the code's messages in which "PDF" occurs when upper-cased
LiteralsNamingPdf == {"Failed to download PDF from ", "Failed to load PDF from URL "}

UpperChar(c) ==
    CASE c = "p" -> "P" [] c = "d" -> "D" [] c = "f" -> "F" [] c = "a" -> "A"
      [] c = "b" -> "B" [] c = "c" -> "C" [] c = "e" -> "E" [] c = "h" -> "H"
      [] c = "t" -> "T" [] c = "s" -> "S" [] OTHER -> c

Upper(s) == [i \in DOMAIN s |-> UpperChar(s[i])]

Contains(s, sub) ==
    \E i \in 1..(Len(s) - Len(sub) + 1) : SubSeq(s, i, i + Len(sub) - 1) = sub

\* "PDF" in str(error).upper()
NamesPdf(msg) ==
    \E i \in DOMAIN msg :
        \/ msg[i].lit \in LiteralsNamingPdf
        \/ Contains(Upper(msg[i].chars), <<"P", "D", "F">>)

Formatted(category, type, context, msg) ==
    [category |-> category, type |-> type, context |-> context, msg |-> msg]
NoError == Formatted("none", "", <<>>, <<>>)

format_error_for_amazon_q(error, context) ==
    IF error.type = "SecurityError" THEN Formatted("Security Error", "", <<>>, error.msg)
    ELSE IF error.type = "FileNotFoundError"
    THEN Formatted("File Not Found", "", <<>>, error.msg)
    ELSE IF error.type = "PermissionError"
    THEN Formatted("Permission Error", "", <<>>, error.msg)
    ELSE IF NamesPdf(error.msg) THEN Formatted("PDF Processing Error", "", <<>>, error.msg)
    ELSE Formatted("generic", error.type, context, error.msg)

-----------------------------------------------------------------------------
(* The documents of the environment *)

\* pages of every readable document
DocPages == 3

\* entries of the metadata of every readable document
MetaKeys == 2

\* where the read of the metadata fails: 0 when pdf_reader.metadata raises, k
\* when the conversion of the k-th entry raises, NoFailure when nothing raises
NoFailure == MetaKeys + 1

Reader(pages, encrypted) == [pages |-> pages, encrypted |-> encrypted]
NoReader == Reader(0, FALSE)

\* parsed: whether PdfReader(...) was called
Loaded(reader) == [ok |-> TRUE, reader |-> reader, exc |-> NoExc, parsed |-> TRUE]
LoadFailed(exc) == [ok |-> FALSE, reader |-> NoReader, exc |-> exc, parsed |-> FALSE]
ParseFailed(exc) == [LoadFailed(exc) EXCEPT !.parsed = TRUE]

\* the trusted root of the server, and the files below it
ServerRoot == <<<<"a">>>>

\* "a": a document; "b": not a PDF; "e": an encrypted document; "p": a file the
\* process may not read; nothing else exists
FileKind(p) ==
    IF p = Append(ServerRoot, <<"a">>) THEN "pdf"
    ELSE IF p = Append(ServerRoot, <<"b">>) THEN "corrupt"
    ELSE IF p = Append(ServerRoot, <<"e">>) THEN "encrypted"
    ELSE IF p = Append(ServerRoot, <<"p">>) THEN "unreadable"
    ELSE IF IsPrefix(p, ServerRoot) THEN "directory"
    ELSE "missing"

\* PdfReader(str(safe_path)): the document, or what the parser raises
PdfReaderOpen(p) ==
    CASE FileKind(p) = "pdf" -> Loaded(Reader(DocPages, FALSE))
      [] FileKind(p) = "encrypted" -> Loaded(Reader(DocPages, TRUE))
      [] FileKind(p) = "corrupt" ->
            ParseFailed(Exc("PdfReadError", <<Lit("EOF marker not found")>>))
      [] FileKind(p) = "unreadable" ->
            ParseFailed(Exc("PermissionError", <<Lit("[Errno 13] Permission denied")>>))
      [] FileKind(p) = "missing" ->
            ParseFailed(Exc("FileNotFoundError", <<Lit("[Errno 2] No such file or directory")>>))
      [] OTHER -> ParseFailed(Exc("IsADirectoryError", <<Lit("Is a directory")>>))

\* lines 192-198 without the test of line 195
LoadLocal_NoExistsCheck(path) ==
    LET safe_path == resolve_path(path) IN
    IF safe_path.kind # "ok"
    THEN LoadFailed(Exc(safe_path.kind, <<Lit(safe_path.msg)>>))
    ELSE PdfReaderOpen(safe_path.path)

\* _load_pdf, lines 192-198
LoadLocal(path) ==
    LET safe_path == resolve_path(path) IN
    IF safe_path.kind # "ok"
    THEN LoadFailed(Exc(safe_path.kind, <<Lit(safe_path.msg)>>))
    ELSE IF FileKind(safe_path.path) = "missing"
    THEN LoadFailed(Exc("FileNotFoundError", <<Lit("File not found: "), Data(path.chars)>>))
    ELSE PdfReaderOpen(safe_path.path)

\* what the network, the fetched bytes and the disk of the temporary file can be
FetchOutcomes == {"pdf", "http_error", "unreachable", "timeout", "not_pdf", "write_error"}

\* the outcomes with response.read() returned: a temporary file is created
BytesFetched == {"pdf", "not_pdf", "write_error"}

UrlOpenError(reason) == <<Lit("<urlopen error "), Lit(reason), Lit(">")>>

\* _load_pdf_from_url, given what the fetch met
LoadFromUrl(url, outcome) ==
    CASE outcome = "pdf" -> Loaded(Reader(DocPages, FALSE))
      [] outcome = "http_error" ->
            LoadFailed(Exc("URLError",
                <<Lit("Failed to download PDF from "), Data(url.chars), Lit(": ")>>
                \o <<Lit("HTTP Error 404: Not Found")>>))
      [] outcome = "unreachable" ->
            LoadFailed(Exc("URLError",
                <<Lit("Failed to download PDF from "), Data(url.chars), Lit(": ")>>
                \o UrlOpenError("Name or service not known")))
      [] outcome = "timeout" ->
            LoadFailed(Exc("Exception",
                <<Lit("Failed to load PDF from URL "), Data(url.chars), Lit(": ")>>
                \o <<Lit("The read operation timed out")>>))
      [] outcome = "write_error" ->
            LoadFailed(Exc("Exception",
                <<Lit("Failed to load PDF from URL "), Data(url.chars), Lit(": ")>>
                \o <<Lit("[Errno 28] No space left on device")>>))
      [] OTHER ->
            ParseFailed(Exc("Exception",
                <<Lit("Failed to load PDF from URL "), Data(url.chars), Lit(": ")>>
                \o <<Lit("EOF marker not found")>>))

-----------------------------------------------------------------------------
(* clean_pdf_text and truncate_text (utils.py) *)

\* the characters of s at the positions of the set keep, in their order
KeepAt(s, keep) ==
    LET at == SortedSeq(keep) IN [k \in DOMAIN at |-> s[at[k]]]

\* the pattern \s in place of \s+: every whitespace character becomes a space
CollapseWhitespace_EachCharacter(s) ==
    [i \in DOMAIN s |-> IF s[i] \in Whitespace THEN " " ELSE s[i]]

\* re.sub(r'\s+', ' ', text), line 142: every run of whitespace becomes one space
CollapseWhitespace(s) ==
    LET spaced == [i \in DOMAIN s |-> IF s[i] \in Whitespace THEN " " ELSE s[i]]
    IN  KeepAt(spaced, {i \in DOMAIN s :
                           s[i] \in Whitespace => (i = 1 \/ s[i - 1] \notin Whitespace)})

\* the run of whitespace around position i
RunStart(s, i) ==
    CHOOSE lo \in 1..i :
        /\ \A k \in lo..i : s[k] \in Whitespace
        /\ lo = 1 \/ s[lo - 1] \notin Whitespace
RunEnd(s, i) ==
    CHOOSE hi \in i..Len(s) :
        /\ \A k \in i..hi : s[k] \in Whitespace
        /\ hi = Len(s) \/ s[hi + 1] \notin Whitespace

Newlines(s, lo, hi) == {k \in lo..hi : s[k] = "\n"}
Least(S) == CHOOSE x \in S : \A y \in S : x <= y
Greatest(S) == CHOOSE x \in S : \A y \in S : x >= y

\* re.sub(r'\n\s*\n\s*\n+', '\n\n', cleaned), line 145: in a run of whitespace
\* with three line breaks or more, the first match begins at the first line
\* break and the greedy \s* carry it to the last one; what lies between the
\* two is dropped, and no line break is left in the run for a second match
CollapseLineBreaks(s) ==
    KeepAt(s, {i \in DOMAIN s :
                  s[i] \in Whitespace =>
                      LET breaks == Newlines(s, RunStart(s, i), RunEnd(s, i))
                      IN  Cardinality(breaks) >= 3 =>
                              (i <= Least(breaks) \/ i >= Greatest(breaks))})

\* clean_pdf_text: the two substitutions in the order of the code, then strip()
clean_pdf_text(t) ==
    IF ~Truthy(t) THEN <<>>
    ELSE Strip(CollapseLineBreaks(CollapseWhitespace(t.chars)))

\* text[:k]: a negative k counts from the end
SliceTo(s, k) ==
    LET stop == IF k >= 0 THEN k ELSE Len(s) + k
    IN  SubSeq(s, 1, IF stop > Len(s) THEN Len(s) ELSE IF stop < 0 THEN 0 ELSE stop)

Ellipsis == <<".", ".", ".">>

\* truncate_text, lines 120-123
truncate_text(s, limit) ==
    IF Len(s) <= limit THEN s ELSE SliceTo(s, limit - 3) \o Ellipsis

-----------------------------------------------------------------------------
(* PdfProcessor (pdf_reader.py) *)

\* source.path or source.url or "unknown"
source_desc(source) ==
    IF Truthy(source.path) THEN source.path.chars
    ELSE IF Truthy(source.url) THEN source.url.chars
    ELSE <<"u", "n", "k", "n", "o", "w", "n">>

ProcessingContext(source) == <<Lit("Processing "), Data(source_desc(source))>>

NoNumber == [given |-> FALSE, n |-> 0]
Number(n) == [given |-> TRUE, n |-> n]

NoData ==
    [num_pages |-> NoNumber, metadata |-> NoNumber, full_text |-> <<>>,
     has_full_text |-> FALSE, page_texts |-> <<>>, has_page_texts |-> FALSE,
     warnings |-> <<>>]

\* the failed result built with a data object
FailedResult_KeepsData(source, exc) ==
    [source |-> source_desc(source), success |-> FALSE, has_data |-> TRUE,
     data |-> NoData, error |-> format_error_for_amazon_q(exc, ProcessingContext(source))]

FailedResult(source, exc) ==
    [source |-> source_desc(source), success |-> FALSE, has_data |-> FALSE,
     data |-> NoData, error |-> format_error_for_amazon_q(exc, ProcessingContext(source))]

SuccessResult(source, data) ==
    [source |-> source_desc(source), success |-> TRUE, has_data |-> TRUE,
     data |-> data, error |-> NoError]

\* the loop of _extract_page_texts left at the first page that fails
extract_page_texts_StopAtFailure(page_numbers, failing) ==
    LET last == IF \E i \in DOMAIN page_numbers : page_numbers[i] \in failing
                THEN CHOOSE i \in DOMAIN page_numbers :
                        /\ page_numbers[i] \in failing
                        /\ \A k \in 1..(i - 1) : page_numbers[k] \notin failing
                ELSE Len(page_numbers)
    IN  [i \in 1..last |->
            [page |-> page_numbers[i],
             text |-> IF page_numbers[i] \in failing THEN "Error" ELSE "text"]]

\* _extract_page_texts: one entry per page number, the failing pages with the
\* error in place of the text
extract_page_texts(page_numbers, failing) ==
    [i \in DOMAIN page_numbers |->
        [page |-> page_numbers[i],
         text |-> IF page_numbers[i] \in failing THEN "Error" ELSE "text"]]

\* lines 127-148 with include_full_text tested before the page list
PagesToProcess_FullTextFirst(source, include_full_text, total_pages) ==
    IF include_full_text THEN [i \in 1..total_pages |-> i]
    ELSE IF source.pages.kind = "list" /\ source.pages.items # <<>>
    THEN SelectSeq(source.pages.items, LAMBDA n : 1 <= n /\ n <= total_pages)
    ELSE <<>>

\* lines 127-148: the pages to process and the pages out of range
PagesToProcess(source, include_full_text, total_pages) ==
    IF source.pages.kind = "list" /\ source.pages.items # <<>>
    THEN SelectSeq(source.pages.items, LAMBDA n : 1 <= n /\ n <= total_pages)
    ELSE IF include_full_text THEN [i \in 1..total_pages |-> i]
    ELSE <<>>

InvalidPages(source, total_pages) ==
    IF source.pages.kind = "list" /\ source.pages.items # <<>>
    THEN SelectSeq(source.pages.items, LAMBDA n : ~(1 <= n /\ n <= total_pages))
    ELSE <<>>

\* one warning for each page out of range
PageWarnings_OnePerPage(invalid_pages, total_pages) ==
    [i \in DOMAIN invalid_pages |->
        [invalid_pages |-> <<invalid_pages[i]>>, total_pages |-> total_pages]]

\* lines 140-144: "Requested page numbers {invalid_pages} exceed total pages
\* ({total_pages})", appended once when a page is out of range
PageWarnings(invalid_pages, total_pages) ==
    IF invalid_pages # <<>>
    THEN <<[invalid_pages |-> invalid_pages, total_pages |-> total_pages]>>
    ELSE <<>>

\* _extract_metadata: the number of entries of the mapping returned.  The
\* mapping is filled entry by entry inside the try, and returned as it stands
\* when the read raises: the entries converted before the failure are kept.
extract_metadata(entries, fails_at) ==
    IF fails_at = 0 THEN Number(0)
    ELSE IF fails_at <= entries THEN Number(fails_at - 1)
    ELSE Number(entries)

\* lines 115-160 of _process_single_source, on a reader whose pages can be
\* counted: fails_at and failing are what the parser meets
ResultData(source, req, reader, fails_at, failing) ==
    LET total_pages == reader.pages
        target_pages == source.pages.kind = "list" /\ source.pages.items # <<>>
        pages_to_process == PagesToProcess(source, req.include_full_text, total_pages)
        invalid_pages == InvalidPages(source, total_pages)
        extracted_texts == extract_page_texts(pages_to_process, failing)
    IN  [num_pages |-> IF req.include_page_count THEN Number(total_pages) ELSE NoNumber,
         metadata |-> IF ~req.include_metadata THEN NoNumber
                      ELSE extract_metadata(MetaKeys, fails_at),
         warnings |-> PageWarnings(invalid_pages, total_pages),
         has_page_texts |-> pages_to_process # <<>> /\ target_pages,
         page_texts |-> IF pages_to_process # <<>> /\ target_pages
                        THEN extracted_texts ELSE <<>>,
         has_full_text |-> pages_to_process # <<>> /\ ~target_pages,
         full_text |-> IF pages_to_process # <<>> /\ ~target_pages
                       THEN extracted_texts ELSE <<>>]

-----------------------------------------------------------------------------
(* call_tool (main.py) and the loop of process_request (pdf_reader.py)       *)

\* items: the TextContent items of the list returned; text: the parts of the
\* rendered results, joined by line breaks in the code
NoToolResult ==
    [kind |-> "none", form |-> "", errors |-> <<>>, lines |-> <<>>, results |-> <<>>,
     text |-> <<>>, items |-> 0]

\* the unknown name answered with a text instead of the ValueError
UnknownTool_Returned ==
    [kind |-> "returned", form |-> "unknown_tool", errors |-> <<>>, lines |-> <<>>,
     results |-> <<>>, text |-> <<>>, items |-> 1]

\* raise ValueError(f"Unknown tool: {name}")
UnknownTool ==
    [kind |-> "raised", form |-> "unknown_tool", errors |-> <<>>, lines |-> <<>>,
     results |-> <<>>, text |-> <<>>, items |-> 0]

\* a line of the text of a response
Line(kind, location, message) == [kind |-> kind, location |-> location, message |-> message]

\* err["loc"]: "sources", then the 0-based index of the source, then its field
Location(loc) ==
    <<loc.field>>
    \o (IF loc.index >= 1 THEN <<ToString(loc.index - 1)>> ELSE <<>>)
    \o (IF loc.sub \in {"", "__root__"} THEN <<>> ELSE <<loc.sub>>)

\* _format_validation_error_for_amazon_q: the header, then "  * location:
\* message" for each error of error.errors()
format_validation_error_for_amazon_q(errors) ==
    <<Line("header", <<>>, "Invalid arguments:")>>
    \o [i \in DOMAIN errors |-> Line("item", Location(errors[i].loc), errors[i].msg)]

\* [TextContent(type="text", text=...)] carrying the itemized validation errors
InvalidArguments(errors) ==
    [kind |-> "returned", form |-> "invalid_arguments", errors |-> errors,
     lines |-> format_validation_error_for_amazon_q(errors), results |-> <<>>,
     text |-> <<>>, items |-> 1]

\* a line of the rendered data of a result
Item(kind, n) == [item |-> kind, n |-> n]

\* _format_result_data: the page count, the metadata (the entries of the
\* documents are among those displayed), the warnings, then the full text or
\* the pages; compact gives the preview and the number of pages extracted
format_result_data(data, compact) ==
    LET parts ==
           (IF data.num_pages.given /\ data.num_pages.n # 0
            THEN <<Item("pages", data.num_pages.n)>> ELSE <<>>)
           \o (IF data.metadata.given /\ data.metadata.n # 0 /\ ~compact
               THEN <<Item("metadata", data.metadata.n)>> ELSE <<>>)
           \o [i \in DOMAIN data.warnings |-> Item("warning", i)]
           \o (IF data.has_full_text /\ data.full_text # <<>>
               THEN <<Item(IF compact THEN "preview" ELSE "full_text", 0)>>
               ELSE IF data.has_page_texts /\ data.page_texts # <<>>
               THEN IF compact THEN <<Item("extracted", Len(data.page_texts))>>
                    ELSE [i \in DOMAIN data.page_texts |->
                             Item("page", data.page_texts[i].page)]
               ELSE <<>>)
    IN  IF parts = <<>> THEN <<Item("no_content", 0)>> ELSE parts

\* a part of the text of the rendered results
Part(kind, n, source, error, data) ==
    [kind |-> kind, n |-> n, source |-> source, error |-> error, data |-> data]

\* _format_single_result_for_amazon_q
format_single_result_for_amazon_q(result) ==
    IF ~result.success
    THEN <<Part("failed_to_process", 0, result.source, result.error, <<>>)>>
    ELSE IF ~result.has_data
    THEN <<Part("no_data", 0, result.source, NoError, <<>>)>>
    ELSE <<Part("source", 0, result.source, NoError, <<>>),
           Part("data", 0, <<>>, NoError, format_result_data(result.data, FALSE))>>

\* lines 211-217: the section of result i of several
Section(i, result) ==
    <<Part("source_header", i, result.source, NoError, <<>>)>>
    \o (IF result.success
        THEN <<Part("success", i, <<>>, NoError, <<>>)>>
             \o (IF result.has_data
                 THEN <<Part("data", i, <<>>, NoError, format_result_data(result.data, TRUE))>>
                 ELSE <<>>)
        ELSE <<Part("failed", i, <<>>, result.error, <<>>)>>)

\* the sections of the results from the i-th on
RECURSIVE Sections(_, _)
Sections(list, i) ==
    IF i > Len(list) THEN <<>> ELSE Section(i, list[i]) \o Sections(list, i + 1)

\* every result rendered in the form of a single one, one after the other
RECURSIVE SingleForms(_, _)
SingleForms(list, i) ==
    IF i > Len(list) THEN <<>>
    ELSE format_single_result_for_amazon_q(list[i]) \o SingleForms(list, i + 1)

\* the results rendered without the header and the sections of lines 208-217
format_response_for_amazon_q_NoSections(list) ==
    IF list = <<>> THEN <<Part("no_results", 0, <<>>, NoError, <<>>)>>
    ELSE SingleForms(list, 1)

\* _format_response_for_amazon_q
format_response_for_amazon_q(list) ==
    IF list = <<>> THEN <<Part("no_results", 0, <<>>, NoError, <<>>)>>
    ELSE IF Len(list) = 1 THEN format_single_result_for_amazon_q(list[1])
    ELSE <<Part("processed", Len(list), <<>>, NoError, <<>>)>> \o Sections(list, 1)

\* [TextContent(type="text", text=...)] carrying the rendered results
RenderedResults(response) ==
    [kind |-> "returned", form |-> "results", errors |-> <<>>, lines |-> <<>>,
     results |-> response, text |-> format_response_for_amazon_q(response), items |-> 1]

NoEnv ==
    [fetch |-> "none", unlink_ok |-> TRUE, metadata_fails_at |-> NoFailure, failing |-> {}]

\* the entries of parser_log
Opened(i) == [op |-> "open", source |-> i]
MetadataRead(i) == [op |-> "metadata", source |-> i]

\* results.append(result), put at the front instead
AppendResult_AtFront(list, result) == <<result>> \o list

\* results.append(result)
AppendResult(list, result) == Append(list, result)

\* the loop left at the first failed source
NextSourceIndex_StopOnFailure(i, result) ==
    IF result.success THEN i + 1 ELSE Len(request.sources) + 1

\* the loop going on two sources further
NextSourceIndex_SkipOne(i, result) == i + 2

\* for source in request.sources: on to the next source, whatever the result
NextSourceIndex(i, result) == i + 1

\* the result of the current source is appended and the loop goes on.  Every
\* failure of load and extraction is raised inside the try of
\* _process_single_source (lines 111-177) and returned as a failed result, so the
\* handler of lines 76-84 is never entered.
Advance(result, env) ==
    /\ results' = AppendResult(results, result)
    /\ met' = Append(met, env)
    /\ idx' = NextSourceIndex(idx, result)
    /\ pdf_reader' = NoReader
    /\ pc' = "loop"

\* call_tool up to the start of the loop: the name, then parse_obj
CallTool ==
    /\ pc = "start"
    /\ IF tool_name # "read_pdf"
       THEN /\ tool_result' = UnknownTool
            /\ pc' = "raised"
            /\ UNCHANGED request
       ELSE LET parsed == ReadPdfRequest(arguments) IN
            IF parsed.ok
            THEN /\ request' = parsed.value
                 /\ pc' = "loop"
                 /\ UNCHANGED tool_result
            ELSE /\ tool_result' = InvalidArguments(parsed.errors)
                 /\ pc' = "returned"
                 /\ UNCHANGED request
    /\ UNCHANGED <<tool_name, arguments, results, idx, pdf_reader, load_log, met>>
    /\ UNCHANGED <<temp_files, parser_log>>
    /\ UNCHANGED <<path_vars, source_vars, text_vars>>

\* _load_pdf of the current source: a reader, or the failed result of the source;
\* for a url whose bytes were fetched, up to the end of response.read()
LoadPdf ==
    /\ pc = "loop"
    /\ idx <= Len(request.sources)
    /\ load_log' = Append(load_log, idx)
    /\ LET source == request.sources[idx] IN
       \E outcome \in IF Truthy(source.path) THEN {"none"} ELSE FetchOutcomes :
          LET loaded == IF Truthy(source.path) THEN LoadLocal(source.path)
                        ELSE LoadFromUrl(source.url, outcome)
              env == [NoEnv EXCEPT !.fetch = outcome]
          IN  IF outcome \in BytesFetched
              THEN /\ pc' = "fetched"
                   /\ met' = Append(met, env)
                   /\ UNCHANGED <<results, idx, pdf_reader, parser_log>>
              ELSE /\ parser_log' = IF loaded.parsed THEN Append(parser_log, Opened(idx))
                                    ELSE parser_log
                   /\ IF loaded.ok
                      THEN /\ pdf_reader' = loaded.reader
                           /\ pc' = "extract"
                           /\ met' = Append(met, env)
                           /\ UNCHANGED <<results, idx>>
                      ELSE Advance(FailedResult(source, loaded.exc), env)
    /\ UNCHANGED <<tool_name, arguments, request, temp_files, tool_result>>
    /\ UNCHANGED <<path_vars, source_vars, text_vars>>

\* lines 235-237 of _load_pdf_from_url: the temporary file is created, and the
\* fetched bytes written to it; a failed write is raised past the unlink of
\* lines 243-248 to the handler of line 252
WriteTempFile ==
    /\ pc = "fetched"
    /\ temp_files' = temp_files \cup {idx}
    /\ LET source == request.sources[idx]
           env == met[Len(met)]
           loaded == LoadFromUrl(source.url, env.fetch)
       IN  IF env.fetch = "write_error"
           THEN /\ results' = AppendResult(results, FailedResult(source, loaded.exc))
                /\ idx' = NextSourceIndex(idx, FailedResult(source, loaded.exc))
                /\ pc' = "loop"
           ELSE /\ pc' = "temp"
                /\ UNCHANGED <<results, idx>>
    /\ UNCHANGED <<tool_name, arguments, request, pdf_reader, load_log, met>>
    /\ UNCHANGED <<parser_log, tool_result>>
    /\ UNCHANGED <<path_vars, source_vars, text_vars>>

\* os.unlink(temp_path), its OSError passed over
Unlink(files, i, unlink_ok) == IF unlink_ok THEN files \ {i} ELSE files

\* lines 239-248 of _load_pdf_from_url: PdfReader(temp_path), and the unlink of
\* the finally clause
ParseTempFile ==
    /\ pc = "temp"
    /\ parser_log' = Append(parser_log, Opened(idx))
    /\ LET source == request.sources[idx]
           env == met[Len(met)]
           before == SubSeq(met, 1, Len(met) - 1)
           loaded == LoadFromUrl(source.url, env.fetch)
       IN  \E unlink_ok \in BOOLEAN :
              /\ temp_files' = Unlink(temp_files, idx, unlink_ok)
              /\ met' = Append(before, [env EXCEPT !.unlink_ok = unlink_ok])
              /\ IF loaded.ok
                 THEN /\ pdf_reader' = loaded.reader
                      /\ pc' = "extract"
                      /\ UNCHANGED <<results, idx>>
                 ELSE /\ results' = AppendResult(results, FailedResult(source, loaded.exc))
                      /\ idx' = NextSourceIndex(idx, FailedResult(source, loaded.exc))
                      /\ pdf_reader' = NoReader
                      /\ pc' = "loop"
    /\ UNCHANGED <<tool_name, arguments, request, load_log, tool_result>>
    /\ UNCHANGED <<path_vars, source_vars, text_vars>>

PageSet(s) == {s[i] : i \in DOMAIN s}

\* the pages whose extraction raises: none, any one of them, or all of them
FailingPages(pages) == {{}, pages} \cup {{n} : n \in pages}

\* the rest of _process_single_source on the loaded document
ExtractSource ==
    /\ pc = "extract"
    /\ LET source == request.sources[idx]
           env == met[Len(met)]
           before == SubSeq(met, 1, Len(met) - 1)
       IN  IF pdf_reader.encrypted
           THEN /\ results' = AppendResult(results,
                       FailedResult(source, Exc("FileNotDecryptedError",
                                                <<Lit("File has not been decrypted")>>)))
                /\ met' = met
                /\ idx' = NextSourceIndex(idx, FailedResult(source, NoExc))
           ELSE \E fails_at \in IF request.include_metadata THEN 0..NoFailure
                                ELSE {NoFailure} :
                \E failing \in FailingPages(PageSet(PagesToProcess(source,
                                        request.include_full_text, pdf_reader.pages))) :
                   LET data == ResultData(source, request, pdf_reader, fails_at, failing)
                   IN  /\ results' = AppendResult(results, SuccessResult(source, data))
                       /\ met' = Append(before, [env EXCEPT !.metadata_fails_at = fails_at,
                                                           !.failing = failing])
                       /\ idx' = NextSourceIndex(idx, SuccessResult(source, data))
    /\ parser_log' = IF ~pdf_reader.encrypted /\ request.include_metadata
                     THEN Append(parser_log, MetadataRead(idx)) ELSE parser_log
    /\ pdf_reader' = NoReader
    /\ pc' = "loop"
    /\ UNCHANGED <<tool_name, arguments, request, load_log, temp_files, tool_result>>
    /\ UNCHANGED <<path_vars, source_vars, text_vars>>

\* return ReadPdfResponse(results=results), rendered by call_tool
ReturnResponse ==
    /\ pc = "loop"
    /\ idx > Len(request.sources)
    /\ tool_result' = RenderedResults(results)
    /\ pc' = "returned"
    /\ UNCHANGED <<tool_name, arguments, request, results, idx, pdf_reader, load_log, met>>
    /\ UNCHANGED <<temp_files, parser_log>>
    /\ UNCHANGED <<path_vars, source_vars, text_vars>>

-----------------------------------------------------------------------------
(* The calls of the tool: the arguments within bounds *)

Src(path, url, pages) == [path |-> path, url |-> url, pages |-> pages]

MissingFile == Src(Str(<<"c">>), NoValue, NoPages)

\* a document, a missing file, a path out of the root, a file that is no PDF,
\* an encrypted document, a file that may not be read, a url, a document with
\* pages in and out of range, a document with no page in range, and four sources
\* the model rejects
RawSources ==
    { Src(Str(<<"a">>), NoValue, NoPages),
      MissingFile,
      Src(Str(<<".", ".">>), NoValue, NoPages),
      Src(Str(<<"b">>), NoValue, NoPages),
      Src(Str(<<"e">>), NoValue, NoPages),
      Src(Str(<<"p">>), NoValue, NoPages),
      Src(NoValue, Str(Http \o <<"h">>), NoPages),
      Src(Str(<<"a">>), NoValue, Pages(<<9, 2, 8, 1>>)),
      Src(Str(<<"a">>), NoValue, Pages(<<8>>)),
      Src(Str(<<"a">>), Str(Http \o <<"h">>), NoPages),
      Src(NoValue, NoValue, NoPages),
      Src(Str(<<"a">>), Str(Http \o <<"h">>), Pages(<<>>)),
      Src(NoValue, Str(<<"h">>), Pages(<<0>>)) }

\* base followed by missing files, n sources in all
PadTo(base, n) == [i \in 1..n |-> IF i <= Len(base) THEN base[i] ELSE MissingFile]

Args(sources, full_text, metadata, page_count) ==
    [has_sources |-> TRUE, sources |-> sources, include_full_text |-> full_text,
     include_metadata |-> metadata, include_page_count |-> page_count]

\* no "sources" key
ArgsWithoutSources == [Args(<<>>, FALSE, TRUE, TRUE) EXCEPT !.has_sources = FALSE]

\* every list of at most MaxSources sources, with the default flags and with full
\* text alone; and the lists of MaxItems - 1 to MaxItems + 1 sources
ToolArguments ==
    {Args(s, FALSE, TRUE, TRUE) : s \in SeqsUpTo(RawSources, MaxSources)}
    \cup {Args(s, TRUE, FALSE, FALSE) : s \in SeqsUpTo(RawSources, MaxSources)}
    \cup {Args(PadTo(base, n), FALSE, TRUE, TRUE) :
             base \in SeqsUpTo(RawSources, 1), n \in (MaxItems - 1)..(MaxItems + 1)}
    \cup {ArgsWithoutSources}

PathIdle ==
    /\ project_root = <<>>
    /\ symlinks = {}
    /\ user_path = NotAStr
    /\ path_result = NotCalled
    /\ cwd = <<>>
    /\ called_in = <<>>
    /\ safe_result = "not_called"

SourceIdle ==
    /\ source_args = NoSource
    /\ source_result = SourceNotBuilt

TextIdle ==
    /\ text = NoValue
    /\ max_length = 0
    /\ text_op = "none"
    /\ text_result = <<>>

ToolIdle ==
    /\ tool_name = ""
    /\ arguments = ArgsWithoutSources
    /\ pc = "idle"
    /\ request = NoRequest
    /\ results = <<>>
    /\ idx = 1
    /\ pdf_reader = NoReader
    /\ load_log = <<>>
    /\ met = <<>>
    /\ temp_files = {}
    /\ parser_log = <<>>
    /\ tool_result = NoToolResult

Init ==
    /\ project_root = ServerRoot
    /\ symlinks = {}
    /\ user_path = NotAStr
    /\ path_result = NotCalled
    /\ cwd = ServerRoot
    /\ called_in = <<>>
    /\ safe_result = "not_called"
    /\ SourceIdle
    /\ TextIdle
    /\ \/ tool_name = "read_pdf" /\ arguments \in ToolArguments
       \/ tool_name = "list_pdfs" /\ arguments = Args(<<MissingFile>>, FALSE, TRUE, TRUE)
    /\ pc = "start"
    /\ request = NoRequest
    /\ results = <<>>
    /\ idx = 1
    /\ pdf_reader = NoReader
    /\ load_log = <<>>
    /\ met = <<>>
    /\ temp_files = {}
    /\ parser_log = <<>>
    /\ tool_result = NoToolResult

Next ==
    CallTool \/ LoadPdf \/ WriteTempFile \/ ParseTempFile \/ ExtractSource
    \/ ReturnResponse

Spec == Init /\ [][Next]_vars

-----------------------------------------------------------------------------
(* The resolver on its own: every root, file system and input within bounds  *)

InitPath ==
    /\ project_root \in Roots
    /\ symlinks \in FileSystems
    /\ user_path \in UserPaths
    /\ path_result = NotCalled
    /\ cwd = project_root
    /\ called_in = <<>>
    /\ safe_result = "not_called"
    /\ SourceIdle
    /\ ToolIdle
    /\ TextIdle

ResolvePath ==
    /\ path_result = NotCalled
    /\ path_result' = resolve_path(user_path)
    /\ called_in' = cwd
    /\ UNCHANGED <<project_root, symlinks, user_path, cwd, safe_result>>
    /\ UNCHANGED <<source_vars, tool_vars, text_vars>>

NextPath == ResolvePath

SpecPath == InitPath /\ [][NextPath]_vars

-----------------------------------------------------------------------------
(* The resolver in a process that changes its working directory, calls the   *)
(* resolver and serves a call of the tool                                    *)

\* "a", "..", "a/..", "../a", "/a", " " and a value that is not a str
RootPaths ==
    {Str(<<"a">>), Str(<<".", ".">>), Str(<<"a", "/", ".", ".">>),
     Str(<<".", ".", "/", "a">>), Str(<<"/", "a">>), Str(<<" ">>), NotAStr}

\* a document of the server's directory, then a document behind a URL
RootArguments ==
    Args(<<Src(Str(<<"a">>), NoValue, NoPages), Src(NoValue, Str(Http \o <<"h">>), NoPages)>>,
         FALSE, TRUE, TRUE)

\* PathUtils(): project_root = Path.cwd().resolve(), line 21
InitRoot ==
    /\ symlinks \in FileSystems
    /\ cwd \in Roots
    /\ project_root = Realpath(<<>>, cwd)
    /\ user_path \in RootPaths
    /\ path_result = NotCalled
    /\ called_in = <<>>
    /\ safe_result = "not_called"
    /\ SourceIdle
    /\ TextIdle
    /\ tool_name = "read_pdf"
    /\ arguments = RootArguments
    /\ pc = "start"
    /\ request = NoRequest
    /\ results = <<>>
    /\ idx = 1
    /\ pdf_reader = NoReader
    /\ load_log = <<>>
    /\ met = <<>>
    /\ temp_files = {}
    /\ parser_log = <<>>
    /\ tool_result = NoToolResult

\* os.chdir by the process, at any time after the construction
ChangeDirectory ==
    /\ \E dir \in Roots \ {cwd} : cwd' = dir
    /\ UNCHANGED <<project_root, symlinks, user_path, path_result, called_in, safe_result>>
    /\ UNCHANGED <<source_vars, tool_vars, text_vars>>

\* is_safe_path(user_path), or is_safe_path(Path(user_path))
IsSafePath ==
    /\ safe_result = "not_called"
    /\ \E path \in (IF user_path.kind = "str"
                     THEN {user_path, AsPath(user_path.chars)} ELSE {user_path}) :
           safe_result' = is_safe_path(path)
    /\ UNCHANGED <<project_root, symlinks, user_path, path_result, cwd, called_in>>
    /\ UNCHANGED <<source_vars, tool_vars, text_vars>>

NextRoot == ChangeDirectory \/ ResolvePath \/ IsSafePath \/ Next

SpecRoot == InitRoot /\ [][NextRoot]_vars

-----------------------------------------------------------------------------
(* The construction of one PdfSource *)

InitSource ==
    /\ PathIdle
    /\ source_args \in SourceArgs
    /\ source_result = SourceNotBuilt
    /\ ToolIdle
    /\ TextIdle

ConstructSource ==
    /\ source_result = SourceNotBuilt
    /\ source_result' = PdfSource(source_args)
    /\ UNCHANGED <<path_vars, source_args, tool_vars, text_vars>>

NextSource == ConstructSource

SpecSource == InitSource /\ [][NextSource]_vars

-----------------------------------------------------------------------------
(* The two text functions on their own: every text and max_length in bounds  *)

TextChars == {"a", " ", "\n"}

\* "  a   b\n\n\n\nc  "
SpacedParagraphs ==
    <<" ", " ", "a", " ", " ", " ", "b", "\n", "\n", "\n", "\n", "c", " ", " ">>

\* "A" * 100
HundredChars == [i \in 1..100 |-> "A"]

\* None, every text of at most MaxTextLen characters, and the two texts above
Texts ==
    {NoValue} \cup {Str(s) : s \in SeqsUpTo(TextChars, MaxTextLen)}
    \cup {Str(SpacedParagraphs), Str(HundredChars)}

Budgets == 0..MaxBudget \cup {50}

InitText ==
    /\ PathIdle
    /\ SourceIdle
    /\ ToolIdle
    /\ text \in Texts
    /\ max_length \in Budgets
    /\ text_op = "none"
    /\ text_result = <<>>

CleanText ==
    /\ text_op = "none"
    /\ text_op' = "clean"
    /\ text_result' = clean_pdf_text(text)
    /\ UNCHANGED <<path_vars, source_vars, tool_vars, text, max_length>>

\* on a str: len(None) raises
TruncateText ==
    /\ text_op = "none"
    /\ text.kind = "str"
    /\ text_op' = "truncate"
    /\ text_result' = truncate_text(text.chars, max_length)
    /\ UNCHANGED <<path_vars, source_vars, tool_vars, text, max_length>>

\* clean_pdf_text called on the text it returned
CleanAgain ==
    /\ text_op = "clean"
    /\ text_op' = "clean_again"
    /\ text' = Str(text_result)
    /\ text_result' = clean_pdf_text(Str(text_result))
    /\ UNCHANGED <<path_vars, source_vars, tool_vars, max_length>>

NextText == CleanText \/ TruncateText \/ CleanAgain

SpecText == InitText /\ [][NextText]_vars

-----------------------------------------------------------------------------
(* Properties of resolve_path, under SpecPath *)

PathCalled == path_result # NotCalled

\* user_path is a string with a character that is not whitespace
UsablePath ==
    /\ user_path.kind = "str"
    /\ \E i \in DOMAIN user_path.chars : user_path.chars[i] \notin Whitespace

normalized_path == normpath(user_path.chars)

\* where project_root / normalized_path leads, links and ".." followed
JoinedTarget == Realpath(project_root, PathParts(normalized_path))

BeginsWithDotDot(s) == ~isabs(s) /\ Head(Split(s)) = DotDot

\* C3: resolve_path either raises or returns a fully resolved absolute path that
\* is the trusted root or lies below it; it never returns a path outside the root.
PathConfinement ==
    /\ PathCalled => path_result.kind \in {"ok", "ValueError", "SecurityError"}
    /\ path_result.kind = "ok" =>
        /\ IsPrefix(project_root, path_result.path)
        /\ Realpath(<<>>, path_result.path) = path_result.path
        /\ \A i \in DOMAIN path_result.path :
               path_result.path[i] \notin {<<>>, Dot, DotDot}

\* a path returned below a root that is not "/", reached through "..", with links
\* in the file system
PathConfinementWitness ==
    /\ path_result.kind = "ok"
    /\ project_root # <<>>
    /\ symlinks # {}
    /\ UsablePath /\ BeginsWithDotDot(normalized_path)
    /\ Len(path_result.path) > Len(project_root)

\* C4: an input whose normalized form is absolute is rejected with the
\* SecurityError for absolute paths, whether it points inside the trusted root
\* (or at the root itself) or outside it.
AbsoluteAlwaysRejected ==
    (PathCalled /\ UsablePath /\ isabs(normalized_path)) =>
        path_result = Raised("SecurityError", "Absolute paths are not allowed")

\* an absolute input that names a path below a root other than "/", rejected
AbsoluteInsideRootWitness ==
    /\ PathCalled /\ UsablePath /\ isabs(normalized_path)
    /\ project_root # <<>>
    /\ IsPrefix(project_root, Realpath(<<>>, PathParts(normalized_path)))
    /\ path_result.kind = "SecurityError"

\* C5 as claimed: for every trusted root, a relative path whose normalized form
\* begins with ".." raises SecurityError and never returns a path.
DotDotAlwaysRejected ==
    (PathCalled /\ UsablePath /\ BeginsWithDotDot(normalized_path)) =>
        path_result.kind = "SecurityError"

\* C5 as amended: a relative path whose normalized form begins with ".." raises
\* SecurityError exactly when the path it leads to is outside the trusted root,
\* and otherwise returns that path (the root is "/", or the rest of the path leads
\* back into the root); under a root other than "/" a normalized form of ".."
\* segments only always raises SecurityError.
DotDotRejectedWhenOutside ==
    (PathCalled /\ UsablePath /\ BeginsWithDotDot(normalized_path)) =>
        /\ path_result.kind = "SecurityError" <=> ~IsPrefix(project_root, JoinedTarget)
        /\ path_result.kind # "SecurityError" => path_result = Returned(JoinedTarget)
        /\ (/\ project_root # <<>>
            /\ \A i \in DOMAIN PathParts(normalized_path) :
                   PathParts(normalized_path)[i] = DotDot)
           => path_result.kind = "SecurityError"

\* "../x" under a root other than "/", rejected
DotDotRejectedWitness ==
    /\ PathCalled /\ UsablePath /\ BeginsWithDotDot(normalized_path)
    /\ project_root # <<>>
    /\ Len(PathParts(normalized_path)) > 1
    /\ path_result = Raised("SecurityError", "Path traversal detected. Access denied")

\* C6: resolve_path raises ValueError, not SecurityError, exactly when the input
\* is not a string, is empty or is whitespace only, whatever the normalized form
\* of such an input would be.
InvalidInputIsValueError ==
    PathCalled => (path_result.kind = "ValueError" <=> ~UsablePath)

\* a whitespace-only string of two or more characters, rejected as empty
WhitespaceOnlyWitness ==
    /\ user_path.kind = "str"
    /\ Len(user_path.chars) >= 2
    /\ ~UsablePath
    /\ path_result = Raised("ValueError", "Path cannot be empty")

-----------------------------------------------------------------------------
(* Properties of PdfSource, under SpecSource *)

SourceBuilt == source_result # SourceNotBuilt

Present(v) == v.kind = "str" /\ Len(v.chars) > 0

HasFieldError(loc) ==
    \E i \in DOMAIN source_result.errors : source_result.errors[i].loc = loc

\* C7: a constructed PdfSource has exactly one of path and url non-empty, and a
\* non-empty url starts with http:// or https://; arguments with both non-empty,
\* or with neither, never construct one.
SourceHasExactlyOne ==
    /\ source_result.status = "ok" =>
        LET s == source_result.value IN
        /\ Present(s.path) # Present(s.url)
        /\ Present(s.url) =>
               \/ SubSeq(s.url.chars, 1, 7) = Http
               \/ SubSeq(s.url.chars, 1, 8) = Https
    /\ (SourceBuilt /\ Present(source_args.path) /\ Present(source_args.url))
           => source_result.status # "ok"
    /\ (SourceBuilt /\ ~Present(source_args.path) /\ ~Present(source_args.url))
           => source_result.status # "ok"

\* a path and a well-formed url together, rejected by the check of __init__
BothPathAndUrlWitness ==
    /\ Present(source_args.path)
    /\ Present(source_args.url)
    /\ source_result.status = "ValueError"

PagesGiven == source_args.pages.kind = "list"
pages_in == source_args.pages.items

\* C8: an empty page list, one with an entry <= 0 and one with more than 100
\* entries are rejected; any other list is stored as its distinct values in
\* strictly ascending order.
PagesValidated ==
    (SourceBuilt /\ PagesGiven) =>
        LET bad == \/ Len(pages_in) = 0
                   \/ \E i \in DOMAIN pages_in : pages_in[i] <= 0
                   \/ Len(pages_in) > PageLimit
        IN  /\ bad <=> HasFieldError("pages")
            /\ bad => source_result.status # "ok"
            /\ source_result.status = "ok" =>
                LET stored == source_result.value.pages.items IN
                /\ source_result.value.pages.kind = "list"
                /\ {stored[i] : i \in DOMAIN stored} = {pages_in[i] : i \in DOMAIN pages_in}
                /\ \A i \in DOMAIN stored : stored[i] > 0
                /\ \A i \in 1..(Len(stored) - 1) : stored[i] < stored[i + 1]

\* a list given out of order and with a duplicate, stored sorted and without it
PagesSortedWitness ==
    /\ source_result.status = "ok"
    /\ PagesGiven
    /\ Len(pages_in) >= 3
    /\ pages_in[1] > pages_in[2]
    /\ Len(source_result.value.pages.items) < Len(pages_in)

PositivePages == Len(pages_in) > 0 /\ \A i \in DOMAIN pages_in : pages_in[i] > 0

ManyEntriesFewValues ==
    /\ PositivePages
    /\ Len(pages_in) > PageLimit
    /\ Cardinality({pages_in[i] : i \in DOMAIN pages_in}) <= PageLimit

\* C9 as claimed: the cap of 100 applies after deduplication, so a list of
\* positive pages with more than 100 entries but at most 100 distinct values is
\* accepted.
PageLimitAfterDedup ==
    (SourceBuilt /\ PagesGiven /\ ManyEntriesFewValues) => ~HasFieldError("pages")

\* C9 as amended: the cap of 100 applies to the number of entries given, before
\* deduplication: a list of positive pages is rejected exactly when it has more
\* than 100 entries, however few distinct values it has.
PageLimitBeforeDedup ==
    (SourceBuilt /\ PagesGiven /\ PositivePages) =>
        /\ HasFieldError("pages") <=> Len(pages_in) > PageLimit
        /\ HasFieldError("pages") => source_result.status = "ValidationError"

\* more than 100 entries with at most 100 distinct values, rejected
ManyDuplicatesRejectedWitness ==
    /\ SourceBuilt /\ PagesGiven /\ ManyEntriesFewValues
    /\ HasFieldError("pages")

-----------------------------------------------------------------------------
(* Properties of call_tool and process_request, under Spec *)

\* the one of path and url a validated source has
Identifier(source) == IF Present(source.path) THEN source.path.chars ELSE source.url.chars

InLoop == pc \in {"loop", "fetched", "temp", "extract"}
ReturnedResults == tool_result.form = "results"

\* C1: for a valid request with N sources, 1 <= N <= 10, the response holds
\* exactly N results and result i is the result of source i, whatever succeeded
\* or failed; while the loop runs, the results are those of the sources before
\* the one it is at.
OneResultPerSource ==
    /\ InLoop =>
        /\ Len(results) = idx - 1
        /\ idx <= Len(request.sources) + 1
        /\ \A i \in DOMAIN results : results[i].source = Identifier(request.sources[i])
    /\ ReturnedResults =>
        /\ Len(request.sources) >= 1 /\ Len(request.sources) <= 10
        /\ Len(tool_result.results) = Len(request.sources)
        /\ \A i \in DOMAIN tool_result.results :
               tool_result.results[i].source = Identifier(request.sources[i])

\* a response for ten sources, some of them failed and some not
TenResultsWitness ==
    /\ ReturnedResults
    /\ Len(tool_result.results) = 10
    /\ \E i \in DOMAIN tool_result.results : tool_result.results[i].success
    /\ \E i \in DOMAIN tool_result.results : ~tool_result.results[i].success

\* what _process_single_source gives for a source on its own, the environment
\* answering env
AloneResult(source, env) ==
    LET loaded == IF Present(source.path) THEN LoadLocal(source.path)
                  ELSE LoadFromUrl(source.url, env.fetch)
    IN  IF ~loaded.ok THEN FailedResult(source, loaded.exc)
        ELSE IF loaded.reader.encrypted
        THEN FailedResult(source, Exc("FileNotDecryptedError",
                                      <<Lit("File has not been decrypted")>>))
        ELSE SuccessResult(source, ResultData(source, request, loaded.reader,
                                              env.metadata_fails_at, env.failing))

\* C2: a failure while loading or extracting source i becomes the failed result
\* of source i and of no other; it never escapes process_request (call_tool
\* raises nothing for read_pdf), every source is loaded in turn, and each
\* result is the one its source gives on its own, whatever happened to the
\* sources before it.
FailureIsolated ==
    /\ tool_name = "read_pdf" => tool_result.kind # "raised"
    /\ \A j \in DOMAIN results :
        /\ results[j] = AloneResult(request.sources[j], met[j])
        /\ results[j].success = results[j].has_data
        /\ results[j].success = (results[j].error = NoError)
    /\ load_log = [j \in 1..Len(load_log) |-> j]
    /\ ReturnedResults =>
        /\ Len(load_log) = Len(request.sources)
        /\ Len(tool_result.results) = Len(request.sources)

\* a failed source followed by a source that succeeded
SuccessAfterFailureWitness ==
    /\ ReturnedResults
    /\ Len(tool_result.results) >= 2
    /\ ~tool_result.results[1].success
    /\ tool_result.results[2].success

SourceCountOutOfRange ==
    \/ ~arguments.has_sources
    \/ Len(arguments.sources) < MinItems
    \/ Len(arguments.sources) > MaxItems

\* C10: a request is accepted only with 1 to 10 sources: with no sources, no
\* sources field, or 11 or more sources, call_tool returns the validation
\* errors and no source is ever loaded.
SourceCountEnforced ==
    (tool_name = "read_pdf" /\ pc # "start") =>
        /\ SourceCountOutOfRange =>
            /\ pc = "returned"
            /\ tool_result.form = "invalid_arguments"
            /\ tool_result.errors # <<>>
            /\ load_log = <<>>
            /\ results = <<>>
        /\ (InLoop \/ ReturnedResults) =>
            /\ ~SourceCountOutOfRange
            /\ Len(request.sources) = Len(arguments.sources)
        /\ load_log # <<>> => ~SourceCountOutOfRange

\* eleven sources, each of them valid, rejected for their number alone
ElevenSourcesWitness ==
    /\ tool_result.form = "invalid_arguments"
    /\ Len(arguments.sources) = 11
    /\ Len(tool_result.errors) = 1
    /\ tool_result.errors[1].loc.index = 0
    /\ load_log = <<>>

\* C11: every result has success, data present and error absent all true or all
\* false: a failed result has an error with a message and no data, a
\* successful one has data and no error.
ResultWellFormed ==
    \A j \in DOMAIN results :
        LET r == results[j] IN
        /\ r.success <=> r.has_data
        /\ r.success <=> (r.error = NoError)
        /\ r.success => r.error.category = "none"
        /\ ~r.success =>
            /\ r.error.category # "none"
            /\ r.error.msg # <<>>
            /\ r.data = NoData

\* a response with a successful result followed by a failed one
FailureAfterSuccessWitness ==
    /\ ReturnedResults
    /\ Len(tool_result.results) >= 2
    /\ tool_result.results[1].success /\ tool_result.results[1].has_data
    /\ ~tool_result.results[2].success /\ ~tool_result.results[2].has_data

\* the source names a local file that resolves below the root and is not there
NamesMissingFile(source) ==
    IF Present(source.path)
    THEN LET safe_path == resolve_path(source.path)
         IN  safe_path.kind = "ok" /\ FileKind(safe_path.path) = "missing"
    ELSE FALSE

ParserCalledFor(j) == \E k \in DOMAIN parser_log : parser_log[k].source = j

\* C12: a local path that resolves inside the root to a file that does not exist
\* gives a failed result whose source is the requested path and whose error is
\* of the category "File Not Found"; the parser is never called for it, and
\* the other sources of the batch still get their results.
MissingFileNotParsed ==
    /\ \A j \in DOMAIN results :
          NamesMissingFile(request.sources[j]) =>
            /\ ~results[j].success
            /\ results[j].source = request.sources[j].path.chars
            /\ results[j].error.category = "File Not Found"
            /\ results[j].error.msg = <<Lit("File not found: "),
                                        Data(request.sources[j].path.chars)>>
            /\ ~ParserCalledFor(j)
    /\ ReturnedResults =>
          /\ Len(tool_result.results) = Len(request.sources)
          /\ \A j \in DOMAIN tool_result.results :
                ~NamesMissingFile(request.sources[j]) =>
                    tool_result.results[j] = AloneResult(request.sources[j], met[j])

\* a missing file followed by a document that is parsed and read
MissingFileFirstWitness ==
    /\ ReturnedResults
    /\ Len(request.sources) = 2
    /\ NamesMissingFile(request.sources[1])
    /\ ~tool_result.results[1].success
    /\ tool_result.results[1].error.category = "File Not Found"
    /\ tool_result.results[2].success
    /\ ParserCalledFor(2) /\ ~ParserCalledFor(1)

\* the source carries an explicit page list
ExplicitPages(source) == source.pages.kind = "list"

InRangePages(source, total) ==
    SelectSeq(source.pages.items, LAMBDA n : 1 <= n /\ n <= total)
OutOfRangePages(source, total) ==
    SelectSeq(source.pages.items, LAMBDA n : n < 1 \/ n > total)

\* the page numbers of the entries of a per-page list, in their order
EntryPages(page_texts) == [i \in DOMAIN page_texts |-> page_texts[i].page]

\* the document of the source is loaded and its pages can be counted
Readable(source, env) ==
    LET loaded == IF Present(source.path) THEN LoadLocal(source.path)
                  ELSE LoadFromUrl(source.url, env.fetch)
    IN  loaded.ok /\ ~loaded.reader.encrypted

\* C13: with an explicit page list on a document of T pages, the pages out of
\* range give exactly one warning that lists all of them and T, the source still
\* succeeds, and the per-page list has entries for exactly the pages in range.
OutOfRangePagesWarned ==
    \A j \in DOMAIN results :
        LET source == request.sources[j]
            data == results[j].data
        IN  (ExplicitPages(source) /\ Readable(source, met[j])) =>
            /\ results[j].success
            /\ data.warnings =
                   IF OutOfRangePages(source, DocPages) = <<>> THEN <<>>
                   ELSE <<[invalid_pages |-> OutOfRangePages(source, DocPages),
                           total_pages |-> DocPages]>>
            /\ EntryPages(data.page_texts) = InRangePages(source, DocPages)
            /\ data.has_page_texts <=> InRangePages(source, DocPages) # <<>>

\* pages 1, 2, 8 and 9 asked of a document of DocPages pages: one warning for 8
\* and 9, entries for 1 and 2
TwoPagesOutOfRangeWitness ==
    \E j \in DOMAIN results :
        /\ results[j].success
        /\ request.sources[j].pages.items = <<1, 2, 8, 9>>
        /\ Len(results[j].data.warnings) = 1
        /\ results[j].data.warnings[1].invalid_pages = <<8, 9>>
        /\ EntryPages(results[j].data.page_texts) = <<1, 2>>

\* C17: with an explicit page list only the per-page list may be present, for
\* the pages asked, and the full text is absent even when include_full_text is
\* true; without a page list and with include_full_text, all pages 1..T are
\* extracted and only the full text may be present; otherwise no page is
\* extracted and both are absent.  The two are never present together.
PageSelectionPolicy ==
    \A j \in DOMAIN results :
        LET source == request.sources[j]
            data == results[j].data
        IN  results[j].success =>
            /\ ~(data.has_full_text /\ data.has_page_texts)
            /\ ExplicitPages(source) =>
                /\ ~data.has_full_text /\ data.full_text = <<>>
                /\ EntryPages(data.page_texts) = InRangePages(source, DocPages)
            /\ (~ExplicitPages(source) /\ request.include_full_text) =>
                /\ ~data.has_page_texts /\ data.page_texts = <<>>
                /\ data.has_full_text
                /\ EntryPages(data.full_text) = [i \in 1..DocPages |-> i]
            /\ (~ExplicitPages(source) /\ ~request.include_full_text) =>
                /\ ~data.has_page_texts /\ data.page_texts = <<>>
                /\ ~data.has_full_text /\ data.full_text = <<>>

\* a page list and include_full_text together: the per-page list alone
PagesOverFullTextWitness ==
    \E j \in DOMAIN results :
        /\ results[j].success
        /\ request.include_full_text
        /\ ExplicitPages(request.sources[j])
        /\ results[j].data.has_page_texts
        /\ ~results[j].data.has_full_text

\* the pages selected for a source, in ascending order
SelectedPages(source) ==
    IF ExplicitPages(source) THEN InRangePages(source, DocPages)
    ELSE IF request.include_full_text THEN [i \in 1..DocPages |-> i]
    ELSE <<>>

\* the entries extracted for a result, whichever field carries them
Entries(data) == IF data.has_page_texts THEN data.page_texts ELSE data.full_text

\* C19: a page whose extraction fails never aborts its source: the source stays
\* successful, there is exactly one entry for each selected page, in ascending
\* order, the entry of a failed page holds the error in place of the text, and
\* the pages after it are still extracted.
PageFailureContained ==
    \A j \in DOMAIN results :
        LET source == request.sources[j]
            entries == Entries(results[j].data)
        IN  Readable(source, met[j]) =>
            /\ results[j].success
            /\ EntryPages(entries) = SelectedPages(source)
            /\ \A i \in DOMAIN entries :
                   entries[i].text = (IF entries[i].page \in met[j].failing
                                      THEN "Error" ELSE "text")

\* the first of several selected pages fails, and the page after it is extracted
FirstPageFailsWitness ==
    \E j \in DOMAIN results :
        /\ results[j].success
        /\ Len(Entries(results[j].data)) >= 2
        /\ Entries(results[j].data)[1].text = "Error"
        /\ Entries(results[j].data)[2].text = "text"

MetadataReadFor(j) == \E k \in DOMAIN parser_log : parser_log[k] = MetadataRead(j)

\* C20: when include_metadata is true and the read of the metadata fails, the
\* result is still successful and its metadata is the empty mapping, the page
\* count and the texts being what they are when the read succeeds; when
\* include_metadata is false the metadata is absent and never read.
MetadataFailureGivesEmptyMapping ==
    \A j \in DOMAIN results :
        LET source == request.sources[j]
            data == results[j].data
            undisturbed == ResultData(source, request, Reader(DocPages, FALSE), NoFailure,
                                      met[j].failing)
        IN  Readable(source, met[j]) =>
            /\ results[j].success
            /\ request.include_metadata =>
                /\ data.metadata = (IF met[j].metadata_fails_at = NoFailure
                                    THEN Number(MetaKeys) ELSE Number(0))
                /\ MetadataReadFor(j)
            /\ ~request.include_metadata =>
                /\ data.metadata = NoNumber
                /\ ~MetadataReadFor(j)
            /\ [data EXCEPT !.metadata = NoNumber] = [undisturbed EXCEPT !.metadata = NoNumber]

\* the constraints the arguments violate: <<i, c>> for constraint c of source
\* i, <<0, c>> for the sources field
ViolatedConstraints(args) ==
    IF ~args.has_sources THEN {<<0, "required">>}
    ELSE {<<0, "count">> : n \in {Len(args.sources)} \ (MinItems..MaxItems)}
         \cup {<<i, "url">> : i \in {k \in DOMAIN args.sources :
                      LET v == args.sources[k].url
                      IN  v.kind = "str" /\ ~IsPrefix(Http, v.chars)
                                         /\ ~IsPrefix(Https, v.chars)}}
         \cup {<<i, "pages">> : i \in {k \in DOMAIN args.sources :
                      LET v == args.sources[k].pages
                      IN  v.kind = "list" /\ (\/ v.items = <<>>
                                              \/ \E x \in Range(v.items) : x <= 0
                                              \/ Len(v.items) > PageLimit)}}
         \cup {<<i, "path or url">> : i \in {k \in DOMAIN args.sources :
                      Present(args.sources[k].path) = Present(args.sources[k].url)}}

\* the violated constraints that are reported: that of path and url only for a
\* source whose url and pages are valid
ReportedConstraints(args) ==
    {v \in ViolatedConstraints(args) :
        v[2] = "path or url" =>
            /\ <<v[1], "url">> \notin ViolatedConstraints(args)
            /\ <<v[1], "pages">> \notin ViolatedConstraints(args)}

\* the location of the line that reports a violated constraint
LocationOf(v) ==
    <<"sources">>
    \o (IF v[1] >= 1 THEN <<ToString(v[1] - 1)>> ELSE <<>>)
    \o (IF v[2] \in {"url", "pages"} THEN <<v[2]>> ELSE <<>>)

ToolCalled == tool_name = "read_pdf" /\ pc # "start"

NothingLoaded ==
    load_log = <<>> /\ parser_log = <<>> /\ temp_files = {} /\ results = <<>>

FromUrl(j) == ~Present(request.sources[j].path)

\* C18: for a source given by url, every temporary file created is removed before
\* the result of the source is final, whether the parser succeeded, the parser
\* failed, or the write of the fetched bytes failed; a file stays only when its
\* removal itself failed, and that failure changes nothing in the result.
TempFileRemoved ==
    \A j \in DOMAIN results :
        /\ j \in temp_files => (FromUrl(j) /\ ~met[j].unlink_ok)
        /\ results[j] = AloneResult(request.sources[j], met[j])

\* what failed for a source, from what the environment holds for it
FailureKind(source, env) ==
    IF Present(source.path)
    THEN LET safe_path == resolve_path(source.path) IN
         IF safe_path.kind = "SecurityError" THEN "security"
         ELSE IF safe_path.kind # "ok" THEN "other"
         ELSE CASE FileKind(safe_path.path) = "missing" -> "not_found"
                [] FileKind(safe_path.path) = "unreadable" -> "permission"
                [] FileKind(safe_path.path) = "corrupt" -> "format"
                [] OTHER -> "other"
    ELSE CASE env.fetch \in {"http_error", "unreachable", "timeout"} -> "network"
           [] env.fetch = "not_pdf" -> "format"
           [] OTHER -> "other"

\* C21: each of the four special kinds of failure has a category of its own: a
\* security violation "Security Error", a missing file "File Not Found", a
\* permission failure "Permission Error", and every failure of the parser on a
\* document "PDF Processing Error", whatever the text of its message.
SpecialKindsHaveOwnCategory ==
    \A j \in DOMAIN results :
        LET kind == FailureKind(request.sources[j], met[j])
            category == results[j].error.category
        IN  ~results[j].success =>
            /\ kind = "security" => category = "Security Error"
            /\ kind = "not_found" => category = "File Not Found"
            /\ kind = "permission" => category = "Permission Error"
            /\ kind = "format" => category = "PDF Processing Error"

\* C22: a network failure of the fetch of a url (status other than 200, transport
\* failure, timeout) is given the generic category, with the type of the
\* failure, the context that names the source and the message of the failure;
\* it is not given the category "PDF Processing Error".
NetworkFailureIsGeneric ==
    \A j \in DOMAIN results :
        FailureKind(request.sources[j], met[j]) = "network" =>
            /\ ~results[j].success
            /\ results[j].error.category = "generic"
            /\ results[j].error.type \in {"URLError", "Exception"}
            /\ results[j].error.context = ProcessingContext(request.sources[j])
            /\ results[j].error.msg # <<>>

PartsOfKind(parts, kind) == SelectSeq(parts, LAMBDA part : part.kind = kind)

\* C23: a response with one result is rendered in the single form: the failure
\* line, or the source followed by its data; a response with N >= 2 results is
\* rendered as a header with N and N sections numbered 1..N in the order of the
\* results, each naming its source and followed by the success marker for a
\* successful result, or by the failure marker with the formatted error for a
\* failed one.
ResponseRendered ==
    ReturnedResults =>
        LET rendered == tool_result.text
            list == tool_result.results
            headers == PartsOfKind(rendered, "source_header")
        IN  /\ Len(list) = 1 =>
                IF list[1].success
                THEN /\ Len(rendered) = 2
                     /\ rendered[1].kind = "source" /\ rendered[1].source = list[1].source
                     /\ rendered[2].kind = "data"
                ELSE /\ Len(rendered) = 1
                     /\ rendered[1].kind = "failed_to_process"
                     /\ rendered[1].source = list[1].source
                     /\ rendered[1].error = list[1].error
            /\ Len(list) >= 2 =>
                /\ rendered[1].kind = "processed" /\ rendered[1].n = Len(list)
                /\ Len(headers) = Len(list)
                /\ \A i \in DOMAIN headers :
                       headers[i].n = i /\ headers[i].source = list[i].source
                /\ \A k \in DOMAIN rendered :
                       rendered[k].kind = "source_header" =>
                          /\ k < Len(rendered)
                          /\ IF list[rendered[k].n].success
                             THEN rendered[k + 1].kind = "success"
                             ELSE /\ rendered[k + 1].kind = "failed"
                                  /\ rendered[k + 1].error = list[rendered[k].n].error
                /\ Len(PartsOfKind(rendered, "success")) + Len(PartsOfKind(rendered, "failed"))
                       = Len(list)

\* two results, the first failed and the second not: both markers in the text
BothMarkersWitness ==
    /\ ReturnedResults
    /\ Len(tool_result.results) = 2
    /\ ~tool_result.results[1].success /\ tool_result.results[2].success
    /\ <<tool_result.text[1].kind, tool_result.text[2].kind, tool_result.text[3].kind>>
           = <<"processed", "source_header", "failed">>
    /\ PartsOfKind(tool_result.text, "success") # <<>>

\* a source is loaded and its result is not appended yet
InProcessing == pc \in {"fetched", "temp", "extract"}

\* C24: the sources are processed one after the other in the order of the
\* input: the load of a source starts only when the results of all the sources
\* before it are appended, and at most one source, with at most one temporary
\* file, is in processing at any time.
SequentialProcessing ==
    /\ load_log = [j \in 1..Len(load_log) |-> j]
    /\ InProcessing =>
        /\ Len(load_log) = Len(results) + 1
        /\ idx = Len(load_log)
    /\ ~InProcessing => Len(load_log) = Len(results)
    /\ \A k, l \in DOMAIN parser_log :
           k <= l => parser_log[k].source <= parser_log[l].source
    /\ \A k \in DOMAIN parser_log :
           parser_log[k].source \in DOMAIN results
           \/ (InProcessing /\ parser_log[k].source = idx)
    /\ (temp_files \ DOMAIN results) \subseteq (IF InProcessing THEN {idx} ELSE {})

\* the temporary file of the second source on disk, the result of the first
\* appended
SecondTempFileWitness ==
    /\ pc = "temp"
    /\ idx = 2
    /\ Len(results) = 1
    /\ load_log = <<1, 2>>
    /\ 2 \in temp_files

\* C26: a call of "read_pdf" never raises, whatever its arguments and the
\* outcome of its sources: the loop is at a source of the request, or past the
\* last one and about to return, and the call returns exactly one text content
\* item, holding the rendered results, the itemized validation
\* errors or the generic error line; a call of any other name raises the
\* unknown-tool error and processes nothing.
ReadPdfAlwaysReturnsOneItem ==
    /\ tool_name = "read_pdf" =>
        /\ pc # "raised"
        /\ tool_result.kind # "raised"
        /\ pc = "returned" =>
            /\ tool_result.kind = "returned"
            /\ tool_result.items = 1
            /\ tool_result.form \in {"results", "invalid_arguments", "error"}
        /\ pc # "returned" => tool_result = NoToolResult
        /\ pc = "loop" => idx \in 1..(Len(request.sources) + 1)
        /\ InProcessing => idx \in DOMAIN request.sources
    /\ (tool_name # "read_pdf" /\ pc # "start") =>
        /\ pc = "raised"
        /\ tool_result.kind = "raised"
        /\ tool_result.form = "unknown_tool"
        /\ tool_result.items = 0
        /\ request = NoRequest
        /\ NothingLoaded

\* a call of "read_pdf" whose two sources both fail, returned as one item
AllSourcesFailedWitness ==
    /\ tool_name = "read_pdf"
    /\ pc = "returned"
    /\ tool_result.form = "results"
    /\ tool_result.items = 1
    /\ Len(results) = 2
    /\ \A i \in DOMAIN results : ~results[i].success

-----------------------------------------------------------------------------
(* Properties of clean_pdf_text and truncate_text, under SpecText *)

\* two characters that are not whitespace with three line breaks or more, and
\* nothing else, between them
HasParagraphBreak(s) ==
    \E i, j \in DOMAIN s :
        /\ j - i >= 4
        /\ s[i] \notin Whitespace /\ s[j] \notin Whitespace
        /\ \A k \in (i + 1)..(j - 1) : s[k] = "\n"

\* C14: clean_pdf_text keeps the paragraph breaks: a run of three or more line
\* breaks of the input becomes exactly two line breaks in the output, and
\* "  a   b\n\n\n\nc  " gives "a b\n\nc".
ParagraphBreaksPreserved ==
    (text_op = "clean" /\ text.kind = "str") =>
        /\ HasParagraphBreak(text.chars) => Contains(text_result, <<"\n", "\n">>)
        /\ text.chars = SpacedParagraphs =>
               text_result = <<"a", " ", "b", "\n", "\n", "c">>

\* C15: truncate_text returns a text of at most max_length characters unchanged,
\* and for a longer text a result of exactly max_length characters: the first
\* max_length - 3 characters of the text followed by "...".
TruncatedToBudget ==
    text_op = "truncate" =>
        IF Len(text.chars) <= max_length THEN text_result = text.chars
        ELSE /\ Len(text_result) = max_length
             /\ \E head \in {SubSeq(text.chars, 1, n) : n \in 0..Len(text.chars)} :
                    /\ Len(head) = max_length - 3
                    /\ text_result = head \o Ellipsis

\* C27: for every text and every budget max_length >= 0, budgets below 3
\* included, the result of truncate_text has at most max_length characters and
\* is a prefix of the text, optionally followed by "...".
ResultWithinBudget ==
    text_op = "truncate" =>
        /\ Len(text_result) <= max_length
        /\ \E n \in 0..Len(text.chars) :
               \/ text_result = SubSeq(text.chars, 1, n)
               \/ text_result = SubSeq(text.chars, 1, n) \o Ellipsis

-----------------------------------------------------------------------------
(* Properties of the trusted root, under SpecRoot *)

\* what resolve_path gives for user_path under the root the resolver holds
ResolvedUnderRoot ==
    IF user_path.kind # "str" \/ Strip(user_path.chars) = <<>>
    THEN path_result.kind = "ValueError"
    ELSE IF isabs(normalized_path) \/ ~IsPrefix(project_root, JoinedTarget)
    THEN path_result.kind = "SecurityError"
    ELSE path_result = Returned(JoinedTarget)

\* C25: the trusted root is the working directory at the construction of the
\* resolver, no step of resolve_path, is_safe_path, process_request or
\* call_tool changes it, and resolve_path accepts the same paths, with the same
\* results, whatever the working directory has become since.
TrustedRootFixed ==
    /\ project_root = Realpath(<<>>, cwd)
    /\ [][project_root' = project_root]_vars
    /\ [](PathCalled => ResolvedUnderRoot)

\* resolve_path returns a path below the root, called in another working
\* directory than the root
AcceptedAfterChangeWitness ==
    /\ path_result.kind = "ok"
    /\ path_result.path # project_root
    /\ called_in # project_root
    /\ safe_result # "not_called"
    /\ pc = "returned"

====
